---------------------------- MODULE Spec2Model ----------------------------
(***************************************************************************)
(* Model of the opencode-claude-quota plugin and CLI.                      *)
(*                                                                         *)
(* Two plugin files exist in the repository: src/src/index.ts ("index")    *)
(* and src/unnamed/part_000 ("simple").  The variable `plugin` says which  *)
(* one the host has loaded.  src/bin/cli.mjs is the terminal entry point.  *)
(*                                                                         *)
(* Conventions                                                             *)
(*   - an optional value (undefined / absent in JavaScript) is a sequence  *)
(*     of length 0 or 1: None or Some(x);                                  *)
(*   - a falsy access token (undefined or "") is the empty string;         *)
(*   - time is counted in clock units (one unit = one minute);             *)
(*   - cost is counted in units of 0.00001 dollar.                         *)
(***************************************************************************)
EXTENDS Integers, Sequences, FiniteSets, TLC

VARIABLES
    plugin,      \* which plugin file is loaded: "index" | "simple"
    localState,  \* the module-level LocalState object
    now,         \* Date.now()
    authFile,    \* the credential file that getAuthFilePath() resolves to
    q,           \* the running tool.quota.execute invocation (its locals)
    cli,         \* the running bin/cli.mjs process
    served,      \* answers the remote endpoints have given (SpecCli only)
    ret,         \* what the plugin handler that ran last returned (None if nothing)
    ghost        \* history: what the events since the last reset carried

vars == <<plugin, localState, now, authFile, q, cli, served, ret, ghost>>

---------------------------------------------------------------------------
(* Bounds of the model *)

MaxRequests == 2
MaxNow == 1
MaxResets == 2
ExpiresAt == 0

---------------------------------------------------------------------------
(* Optional values *)

None == <<>>
Some(x) == <<x>>

\* JavaScript `x || 0` for a numeric field that may be absent.
OrZero(x) == IF x = None THEN 0 ELSE x[1]

---------------------------------------------------------------------------
(* Number formatting used in the returned texts *)

RECURSIVE Groups(_)
\* The groups of three digits of a non-negative integer, most significant first.
Groups(n) == IF n < 1000 THEN <<n>> ELSE Append(Groups(n \div 1000), n % 1000)

\* Number.prototype.toLocaleString() of an integer: sign and digit groups.
toLocaleString(n) ==
    [negative |-> n < 0, groups |-> Groups(IF n < 0 THEN -n ELSE n)]

RECURSIVE GroupsValue(_)
GroupsValue(g) ==
    IF Len(g) = 0 THEN 0
    ELSE GroupsValue(SubSeq(g, 1, Len(g) - 1)) * 1000 + g[Len(g)]

\* The integer a toLocaleString() text denotes.
LocaleValue(t) == IF t.negative THEN -GroupsValue(t.groups) ELSE GroupsValue(t.groups)

\* Number.prototype.toFixed(4) of a cost given in units of 0.00001 dollar:
\* the number of 0.0001 dollars printed, ties rounded away from zero.
toFixed4(c) == IF c >= 0 THEN (c + 5) \div 10 ELSE -((5 - c) \div 10)

---------------------------------------------------------------------------
(* Local state *)

ZeroState(t) ==
    [inputTokens |-> 0, outputTokens |-> 0, cacheTokens |-> 0,
     cost |-> 0, requests |-> 0, sessionStart |-> t]

getTotalTokens(s) == s.inputTokens + s.outputTokens + s.cacheTokens

\* The body of "message.updated" counting the request twice.
recordTokensTwice(s, message) ==
    LET tokens == message.tokens[1]
        cache  == tokens.cache
        read   == IF cache = None THEN 0 ELSE OrZero(cache[1].read)
        write  == IF cache = None THEN 0 ELSE OrZero(cache[1].write)
    IN [s EXCEPT !.inputTokens  = @ + OrZero(tokens.input),
                 !.outputTokens = @ + OrZero(tokens.output),
                 !.cacheTokens  = @ + (read + write),
                 !.cost         = @ + OrZero(message.cost),
                 !.requests     = @ + 2]

\* The body of "message.updated" adding the input tokens twice.
recordTokensDouble(s, message) ==
    LET tokens == message.tokens[1]
        cache  == tokens.cache
        read   == IF cache = None THEN 0 ELSE OrZero(cache[1].read)
        write  == IF cache = None THEN 0 ELSE OrZero(cache[1].write)
    IN [s EXCEPT !.inputTokens  = @ + 2 * OrZero(tokens.input),
                 !.outputTokens = @ + OrZero(tokens.output),
                 !.cacheTokens  = @ + (read + write),
                 !.cost         = @ + OrZero(message.cost),
                 !.requests     = @ + 1]

\* The body of "message.updated" after its two early returns.
recordTokens(s, message) ==
    LET tokens == message.tokens[1]
        cache  == tokens.cache
        read   == IF cache = None THEN 0 ELSE OrZero(cache[1].read)
        write  == IF cache = None THEN 0 ELSE OrZero(cache[1].write)
    IN [s EXCEPT !.inputTokens  = @ + OrZero(tokens.input),
                 !.outputTokens = @ + OrZero(tokens.output),
                 !.cacheTokens  = @ + (read + write),
                 !.cost         = @ + OrZero(message.cost),
                 !.requests     = @ + 1]

\* Sum of the five token fields an event carries, each absent field as 0.
FieldSum(message) ==
    LET tokens == message.tokens[1]
        cache  == tokens.cache
    IN OrZero(tokens.input) + OrZero(tokens.output) + OrZero(tokens.reasoning)
       + (IF cache = None THEN 0 ELSE OrZero(cache[1].read) + OrZero(cache[1].write))

\* The two early returns without the test of the role.
QualifiesAnyRole(message) == message.tokens # None

\* Neither of the two early returns of "message.updated" is taken.
Qualifies(message) == message.role = "assistant" /\ message.tokens # None

(* Event payloads the host delivers *)
CacheValues ==
    {None, Some([read |-> Some(1), write |-> None]), Some([read |-> None, write |-> Some(1)])}

NoTokens == [input |-> None, output |-> None, reasoning |-> None, cache |-> None]

\* message.tokens: absent, an object with no field, with one field, or with
\* all of them.
TokenValues ==
    {None, Some(NoTokens)}
    \cup {Some([NoTokens EXCEPT !.input = i]) : i \in {Some(1), Some(-1)}}
    \cup {Some([NoTokens EXCEPT !.output = Some(1)]),
          Some([NoTokens EXCEPT !.reasoning = Some(1)])}
    \cup {Some([NoTokens EXCEPT !.cache = c]) : c \in CacheValues \ {None}}
    \cup {Some([input |-> Some(1), output |-> Some(1), reasoning |-> Some(1),
                cache |-> c]) : c \in CacheValues \ {None}}

Messages ==
    [role : {"assistant"}, tokens : TokenValues, cost : {None, Some(4)}]
    \cup {[role |-> "user", tokens |-> t, cost |-> None] :
            t \in {None, Some([input |-> Some(1), output |-> Some(1),
                               reasoning |-> None, cache |-> None])}}

\* The one event of the specification that studies the fetch.
FetchMessages ==
    {[role |-> "assistant", cost |-> Some(4),
      tokens |-> Some([input |-> Some(1), output |-> Some(1), reasoning |-> None,
                       cache |-> Some([read |-> Some(1), write |-> None])])]}

\* The payloads of "message.updated": with a message, or without one.
Inputs == {[message |-> None]} \cup {[message |-> Some(m)] : m \in Messages}

FetchInputs == {[message |-> Some(m)] : m \in FetchMessages}

---------------------------------------------------------------------------
(* Credential file *)

\* The "anthropic" entries of the file: one of another type, and OAuth
\* entries with or without each of access, expires and refresh (an absent
\* string field is "").
AuthEntries ==
    {[type |-> "api", access |-> "", expires |-> None, refresh |-> "refresh"]} \cup
    {[type |-> "oauth", access |-> a, expires |-> e, refresh |-> r] :
        a \in {"", "stale"}, e \in {None, Some(ExpiresAt)}, r \in {"", "refresh"}}

\* kind: "missing" (no file at any candidate path), "unreadable" (readFileSync
\* throws), "badjson" (JSON.parse throws), "null" (the JSON text null),
\* "object" (a JSON object, with or without an "anthropic" entry).
AuthFiles ==
    {[kind |-> k, anthropic |-> None] : k \in {"missing", "unreadable", "badjson", "null"}}
    \cup {[kind |-> "object", anthropic |-> e] : e \in {None} \cup {Some(x) : x \in AuthEntries}}

\* Results of a function body that may throw.
Return(v) == [throws |-> FALSE, value |-> v]
Throw == [throws |-> TRUE, value |-> None]

\* The statements inside the try block of getAnthropicAuth.
readAnthropicAuth(file) ==
    CASE file.kind = "missing" -> Return(None)
      [] file.kind \in {"unreadable", "badjson", "null"} -> Throw
      [] OTHER ->
            IF file.anthropic = None \/ file.anthropic[1].type # "oauth"
            THEN Return(None)
            ELSE Return(file.anthropic)

\* getAnthropicAuth without its catch.
getAnthropicAuthUncaught(file) == readAnthropicAuth(file)

\* getAnthropicAuth: the try block, and the catch that returns null.
getAnthropicAuth(file) ==
    LET r == readAnthropicAuth(file) IN IF r.throws THEN Return(None) ELSE r

\* auth.expires < Date.now(); false when expires is undefined.
Expired(auth, t) == auth.expires # None /\ auth.expires[1] < t

---------------------------------------------------------------------------
(* Remote endpoints *)

\* What a fetch() and the following response.json() can do:
\*   "neterr"   fetch rejects            "status"   response.ok is false
\*   "badbody"  response.json() rejects  "nullbody" the body is JSON null
\* and per endpoint the useful answers below.
TokenOutcomes == {"neterr", "status", "badbody", "nullbody", "notoken", "fresh"}
\* Successful answers of a usage endpoint, each with its own body.
DataOutcomes  == {"data", "sparse", "over"}
UsageOutcomes == {"neterr", "status", "badbody", "nullbody"} \cup DataOutcomes
OrgsOutcomes  == {"neterr", "status", "badbody", "empty", "nullorg", "orgs"}

\* A usage window of a response body: utilization in tenths of a percent,
\* resets_at as a time of the model's clock; either may be absent.
Window(utilization, resets_at) ==
    [utilization |-> utilization, resets_at |-> resets_at]

\* The usage body the endpoint `ep` serves to a bearer `token` with the
\* successful answer o:
\*   "data"    8% and 28%, resetting in an hour and a half and in 25 hours;
\*   "sparse"  no five_hour window, 28.5%, resetting a minute after the start;
\*   "over"    150% and no reset time, no utilization and a reset 24 hours
\*             after the start.
UsageBody(ep, token, o) ==
    CASE o = "data" ->
            [from |-> <<ep, token>>,
             five_hour |-> Some(Window(Some(80), Some(90))),
             seven_day |-> Some(Window(Some(280), Some(1500)))]
      [] o = "sparse" ->
            [from |-> <<ep, token>>,
             five_hour |-> None,
             seven_day |-> Some(Window(Some(285), Some(1)))]
      [] OTHER ->
            [from |-> <<ep, token>>,
             five_hour |-> Some(Window(Some(1500), None)),
             seven_day |-> Some(Window(None, Some(1440)))]

\* The statements inside the try block of refreshAccessToken, given the
\* outcome of the POST: the new token, "" for null or undefined.
refreshBody(o) ==
    CASE o = "neterr"   -> Throw
      [] o = "status"   -> Return("")
      [] o = "badbody"  -> Throw
      [] o = "nullbody" -> Throw
      [] o = "notoken"  -> Return("")
      [] OTHER          -> Return("fresh")

refreshAccessToken(o) ==
    LET r == refreshBody(o) IN IF r.throws THEN Return("") ELSE r

\* A step of a function with several awaits: it returns, throws, or goes on
\* to the next request.
Done(v) == [throws |-> FALSE, next |-> "return", value |-> v]
Goes(ep) == [throws |-> FALSE, next |-> ep, value |-> None]
Thrown == [throws |-> TRUE, next |-> "return", value |-> None]
Catch(r) == IF r.throws THEN Done(None) ELSE r

\* The index.ts step with the fallback also taken when the fetch rejects.
oauthUsageStepFallsBackOnError(o, token) ==
    CASE o = "badbody"  -> Thrown
      [] o = "nullbody" -> Done(None)
      [] o \in DataOutcomes -> Done(Some(UsageBody("usage", token, o)))
      [] OTHER          -> Goes("orgs")

\* fetchClaudeUsage after the answer of the OAuth usage endpoint.
oauthUsageStepIndex(o, token) ==
    CASE o = "neterr"   -> Thrown
      [] o = "badbody"  -> Thrown
      [] o = "nullbody" -> Done(None)
      [] o \in DataOutcomes -> Done(Some(UsageBody("usage", token, o)))
      [] OTHER          -> Goes("orgs")

oauthUsageStepSimple(o, token) ==
    CASE o = "neterr"   -> Thrown
      [] o = "badbody"  -> Thrown
      [] o = "nullbody" -> Done(None)
      [] o \in DataOutcomes -> Done(Some(UsageBody("usage", token, o)))
      [] OTHER          -> Done(None)

oauthUsageStep(pl, o, token) ==
    Catch(IF pl = "index" THEN oauthUsageStepIndex(o, token)
          ELSE oauthUsageStepSimple(o, token))

\* fetchClaudeUsage (index.ts) after the answer of claude.ai/api/organizations.
orgsStep(o) ==
    Catch(CASE o = "neterr"  -> Thrown
            [] o = "status"  -> Done(None)
            [] o = "badbody" -> Thrown
            [] o = "empty"   -> Done(None)
            [] o = "nullorg" -> Thrown
            [] OTHER         -> Goes("orgUsage"))

\* fetchClaudeUsage (index.ts) after the answer of organizations/<id>/usage.
orgUsageStep(o, token) ==
    Catch(CASE o = "neterr"   -> Thrown
            [] o = "status"   -> Done(None)
            [] o = "badbody"  -> Thrown
            [] o = "nullbody" -> Done(None)
            [] OTHER          -> Done(Some(UsageBody("orgUsage", token, o))))

---------------------------------------------------------------------------
(* Event hooks and the quotaReset tool: synchronous bodies, one step each *)

\* Sum of the token fields of an event that the hook adds to a counter.
CountedSum(message) == FieldSum(message) - OrZero(message.tokens[1].reasoning)

\* History of the qualifying events since the last reset: sumFields, the sum
\* of all their token fields; counted, the sum of the fields the hook adds to
\* a counter; events, how many they were.  ledger, kept only by the
\* specification that studies it, is the history since the last
\* session.created.
NoGhost == [sumFields |-> 0, counted |-> 0, events |-> 0, ledger |-> None]

\* The ledger: received, the sum of the counted tokens of the qualifying
\* events; returned, the sum of the previous totals quotaReset returned;
\* resets, how many times quotaReset ran.
EmptyLedger == [received |-> 0, returned |-> 0, resets |-> 0]

Received(ledger, tokens) ==
    IF ledger = None THEN None
    ELSE Some([ledger[1] EXCEPT !.received = @ + tokens])

ReturnedByReset(ledger, previous) ==
    IF ledger = None THEN None
    ELSE Some([ledger[1] EXCEPT !.returned = @ + previous, !.resets = @ + 1])

Restarted(ledger) == IF ledger = None THEN None ELSE Some(EmptyLedger)

\* The history after quotaReset returned `text`.
GhostAfterReset(g, text) ==
    [NoGhost EXCEPT !.ledger = ReturnedByReset(g.ledger, LocaleValue(text.tokens))]

\* The ledger is kept for at most MaxResets calls of quotaReset.
LedgerOpen == ghost.ledger # None => ghost.ledger[1].resets < MaxResets

\* What the promise of "message.updated" settles with: rejected, or fulfilled
\* with nothing (counted tells whether the event passed the two early returns).
HookRejected == [op |-> "message.updated", threw |-> TRUE, counted |-> FALSE]
HookDone(counted) == [op |-> "message.updated", threw |-> FALSE, counted |-> counted]

\* "message.updated": `input.message.role` throws when there is no message.
MessageUpdated(input) ==
    IF input.message = None
    THEN /\ ret' = Some(HookRejected)
         /\ UNCHANGED <<plugin, localState, now, authFile, q, cli, served, ghost>>
    ELSE LET message == input.message[1] IN
         /\ Qualifies(message) => localState.requests < MaxRequests
         /\ IF Qualifies(message)
            THEN /\ localState' = recordTokens(localState, message)
                 /\ ghost' = [ghost EXCEPT !.sumFields = @ + FieldSum(message),
                                           !.counted = @ + CountedSum(message),
                                           !.events = @ + 1,
                                           !.ledger = Received(@, CountedSum(message))]
            ELSE UNCHANGED <<localState, ghost>>
         /\ ret' = Some(HookDone(Qualifies(message)))
         /\ UNCHANGED <<plugin, now, authFile, q, cli, served>>

\* History kept with a reset's result: when it ran, and the token total and
\* the cost it found.
ResetNote(t, s) == [at |-> t, total |-> getTotalTokens(s), cost |-> s.cost]

\* "session.created": returns nothing.
SessionCreated ==
    /\ localState' = ZeroState(now)
    /\ ghost' = [NoGhost EXCEPT !.ledger = Restarted(ghost.ledger)]
    /\ ret' = Some([op |-> "session.created", note |-> ResetNote(now, localState)])
    /\ UNCHANGED <<plugin, now, authFile, q, cli, served>>

\* The text quotaReset returns, from the totals it saved before zeroing.
resetText(oldTotal, oldCost) ==
    [tokens |-> toLocaleString(oldTotal), cost |-> toFixed4(oldCost)]

\* quotaReset with the totals read after the counters were zeroed.
QuotaResetLate ==
    /\ LedgerOpen
    /\ localState' = ZeroState(now)
    /\ ghost' = GhostAfterReset(ghost, resetText(getTotalTokens(ZeroState(now)),
                                                ZeroState(now).cost))
    /\ ret' = Some([op |-> "quotaReset",
                    text |-> resetText(getTotalTokens(ZeroState(now)), ZeroState(now).cost),
                    note |-> ResetNote(now, localState)])
    /\ UNCHANGED <<plugin, now, authFile, q, cli, served>>

\* tool.quotaReset.execute
QuotaReset ==
    /\ LedgerOpen
    /\ localState' = ZeroState(now)
    /\ ghost' = GhostAfterReset(ghost, resetText(getTotalTokens(localState),
                                                localState.cost))
    /\ ret' = Some([op |-> "quotaReset",
                    text |-> resetText(getTotalTokens(localState), localState.cost),
                    note |-> ResetNote(now, localState)])
    /\ UNCHANGED <<plugin, now, authFile, q, cli, served>>

\* The clock advances.
Tick ==
    /\ now < MaxNow
    /\ now' = now + 1
    /\ UNCHANGED <<plugin, localState, authFile, q, cli, served, ret, ghost>>

---------------------------------------------------------------------------
(* tool.quota.execute: one step per stretch of code between two awaits *)

\* before: the request count the invocation found when it was called.
IdleQ ==
    [pc |-> "idle", accessToken |-> "", expired |-> FALSE,
     calls |-> <<>>, claudeUsage |-> None, before |-> 0]

Call(ep, token) == [ep |-> ep, token |-> token, o |-> "pending"]

\* The last call of the log, answered with outcome o.
Answered(calls, o) == [calls EXCEPT ![Len(calls)].o = o]

\* execute after the refresh: `if (accessToken) fetchClaudeUsage(accessToken)`.
issueUsage(inv, token) ==
    IF token # ""
    THEN [inv EXCEPT !.pc = "usage", !.accessToken = token,
                     !.calls = Append(@, Call("usage", token))]
    ELSE [inv EXCEPT !.pc = "render", !.accessToken = token]

\* A rejected promise of the tool: what the host gets instead of a report.
Rejected == [op |-> "quota", threw |-> TRUE]

\* execute with a refreshed token kept from an earlier invocation: an expired
\* credential goes straight to the usage call.
startQuotaReusesToken(auth, t) ==
    IF auth.throws THEN [IdleQ EXCEPT !.pc = "rejected"]
    ELSE IF auth.value = None THEN [IdleQ EXCEPT !.pc = "render"]
    ELSE LET a == auth.value[1] IN
         IF Expired(a, t)
         THEN issueUsage([IdleQ EXCEPT !.expired = TRUE], "fresh")
         ELSE issueUsage(IdleQ, a.access)

\* execute up to its first network await.
startQuota(auth, t) ==
    IF auth.throws THEN [IdleQ EXCEPT !.pc = "rejected"]
    ELSE IF auth.value = None THEN [IdleQ EXCEPT !.pc = "render"]
    ELSE LET a == auth.value[1] IN
         IF Expired(a, t)
         THEN [IdleQ EXCEPT !.pc = "refresh", !.accessToken = a.access,
                            !.expired = TRUE,
                            !.calls = <<Call("token", a.refresh)>>]
         ELSE issueUsage(IdleQ, a.access)

\* The invocation goes on as inv, unless an exception escaped: then the
\* promise execute returned is rejected.
Continue(inv) ==
    IF inv.pc = "rejected"
    THEN q' = IdleQ /\ ret' = Some(Rejected)
    ELSE q' = inv /\ ret' = None

QuotaStart ==
    /\ q.pc = "idle"
    /\ Continue(LET inv == startQuota(getAnthropicAuth(authFile), now)
                IN IF inv.pc = "rejected" THEN inv
                   ELSE [inv EXCEPT !.before = localState.requests])
    /\ UNCHANGED <<plugin, localState, now, authFile, cli, ghost>>

\* The refresh result used as it comes: no token, no usage call.
afterRefreshAbort(inv, r) ==
    IF r.throws THEN [inv EXCEPT !.pc = "rejected"]
    ELSE issueUsage(inv, r.value)

\* The refresh result ignored: the stored token is sent.
afterRefreshKeepsStale(inv, r) ==
    IF r.throws THEN [inv EXCEPT !.pc = "rejected"]
    ELSE issueUsage(inv, inv.accessToken)

\* `if (newToken) accessToken = newToken`
afterRefresh(inv, r) ==
    IF r.throws THEN [inv EXCEPT !.pc = "rejected"]
    ELSE issueUsage(inv, IF r.value # "" THEN r.value ELSE inv.accessToken)

\* The token endpoint answers.
RefreshResponse(o) ==
    /\ q.pc = "refresh"
    /\ Continue(afterRefresh([q EXCEPT !.calls = Answered(@, o)], refreshAccessToken(o)))
    /\ UNCHANGED <<plugin, localState, now, authFile, cli, ghost>>

\* A fetch that refreshes again when it ends with nothing after a refresh.
afterStepRetry(inv, r) ==
    IF r.throws THEN [inv EXCEPT !.pc = "rejected"]
    ELSE IF r.next = "return" /\ r.value = None /\ inv.expired
    THEN [inv EXCEPT !.pc = "refresh", !.calls = Append(@, Call("token", "refresh"))]
    ELSE IF r.next = "return"
    THEN [inv EXCEPT !.pc = "render", !.claudeUsage = r.value]
    ELSE [inv EXCEPT !.pc = r.next, !.calls = Append(@, Call(r.next, inv.accessToken))]

\* A fetch that, ending with nothing, waits for a retry nobody schedules.
afterStepWaits(inv, r) ==
    IF r.throws THEN [inv EXCEPT !.pc = "rejected"]
    ELSE IF r.next = "return" /\ r.value = None
    THEN [inv EXCEPT !.pc = "backoff"]
    ELSE IF r.next = "return"
    THEN [inv EXCEPT !.pc = "render", !.claudeUsage = r.value]
    ELSE [inv EXCEPT !.pc = r.next, !.calls = Append(@, Call(r.next, inv.accessToken))]

\* fetchClaudeUsage moves on after a step: it returns or issues the next call.
afterStep(inv, r) ==
    IF r.throws THEN [inv EXCEPT !.pc = "rejected"]
    ELSE IF r.next = "return"
    THEN [inv EXCEPT !.pc = "render", !.claudeUsage = r.value]
    ELSE [inv EXCEPT !.pc = r.next, !.calls = Append(@, Call(r.next, inv.accessToken))]

\* The OAuth usage endpoint answers.
UsageResponse(o) ==
    /\ q.pc = "usage"
    /\ Continue(afterStep([q EXCEPT !.calls = Answered(@, o)],
                           oauthUsageStep(plugin, o, q.accessToken)))
    /\ UNCHANGED <<plugin, localState, now, authFile, cli, ghost>>

\* claude.ai/api/organizations answers (index.ts only).
OrgsResponse(o) ==
    /\ q.pc = "orgs"
    /\ Continue(afterStep([q EXCEPT !.calls = Answered(@, o)], orgsStep(o)))
    /\ UNCHANGED <<plugin, localState, now, authFile, cli, ghost>>

\* claude.ai/api/organizations/<id>/usage answers (index.ts only).
OrgUsageResponse(o) ==
    /\ q.pc = "orgUsage"
    /\ Continue(afterStep([q EXCEPT !.calls = Answered(@, o)],
                           orgUsageStep(o, q.accessToken)))
    /\ UNCHANGED <<plugin, localState, now, authFile, cli, ghost>>

\* Math.floor of a value given in tenths.
MathFloor(tenths) == tenths \div 10

\* Math.round of a value given in tenths.
MathRound(tenths) == (tenths + 5) \div 10

Min(a, b) == IF a < b THEN a ELSE b
Max(a, b) == IF a > b THEN a ELSE b

\* String.prototype.repeat: n copies of a glyph.
Repeat(glyph, n) == [i \in 1..n |-> glyph]

\* The bar drawn from the percentage as it comes.
formatProgressBarUnclamped(percentage, width) ==
    LET filled == (percentage * width + 50) \div 100
        empty  == width - filled
    IN Repeat("#", filled) \o Repeat("-", empty)

\* formatProgressBar / progressBar: "#" stands for the filled block glyph and
\* "-" for the empty one; Math.round of the non-negative quotient.
formatProgressBar(percentage, width) ==
    LET clampedPercent == Min(100, Max(0, percentage))
        filled == (clampedPercent * width + 50) \div 100
        empty  == width - filled
    IN Repeat("#", filled) \o Repeat("-", empty)

\* The texts formatTimeRemaining returns: a form and its two numbers.
TimeText(form, a, b) == [form |-> form, a |-> a, b |-> b]

\* formatTimeRemaining of src/src/index.ts at clock t, in minutes.
formatTimeRemainingIndex(resetTime, t) ==
    IF resetTime = None THEN TimeText("unknown", 0, 0)
    ELSE LET diff    == resetTime[1] - t
             hours   == diff \div 60
             minutes == diff % 60
         IN IF diff <= 0 THEN TimeText("resetting...", 0, 0)
            ELSE IF hours > 0 THEN TimeText("Hh Mm", hours, minutes)
            ELSE TimeText("Mm", minutes, 0)

\* formatTimeRemaining of src/unnamed/part_000.
formatTimeRemainingSimple(resetTime, t) ==
    IF resetTime = None THEN TimeText("unknown", 0, 0)
    ELSE LET diff    == resetTime[1] - t
             hours   == diff \div 60
             minutes == diff % 60
         IN IF diff <= 0 THEN TimeText("resetting...", 0, 0)
            ELSE IF hours >= 24 THEN TimeText("Dd Hh", hours \div 24, hours % 24)
            ELSE IF hours > 0 THEN TimeText("Hh Mm", hours, minutes)
            ELSE TimeText("Mm", minutes, 0)

\* formatTime of src/bin/cli.mjs.
formatTime(resetTime, t) ==
    IF resetTime = None THEN TimeText("unknown", 0, 0)
    ELSE LET diff    == resetTime[1] - t
             hours   == diff \div 60
             minutes == diff % 60
         IN IF diff <= 0 THEN TimeText("resetting...", 0, 0)
            ELSE IF hours >= 24 THEN TimeText("Dd Hh", hours \div 24, hours % 24)
            ELSE IF hours > 0 THEN TimeText("Hh Mm", hours, minutes)
            ELSE TimeText("Mm", minutes, 0)

\* The reset time as the program `who` renders it.
resetIn(who, resetTime, t) ==
    CASE who = "index"  -> formatTimeRemainingIndex(resetTime, t)
      [] who = "simple" -> formatTimeRemainingSimple(resetTime, t)
      [] OTHER          -> formatTime(resetTime, t)

\* `window?.utilization || 0` and `window?.resets_at`
utilizationOf(window) == IF window = None THEN 0 ELSE OrZero(window[1].utilization)
resetsAtOf(window) == IF window = None THEN None ELSE window[1].resets_at

\* The quota section of the program `who` at clock t: for both windows the
\* bar, the used and the remaining percent, and the time to the reset.
quotaSection(who, usage, t) ==
    LET sessionUsed == MathRound(utilizationOf(usage.five_hour))
        weeklyUsed  == MathRound(utilizationOf(usage.seven_day))
    IN [sessionUsed |-> sessionUsed, sessionRemaining |-> 100 - sessionUsed,
        sessionBar |-> formatProgressBar(sessionUsed, 20),
        sessionResetIn |-> resetIn(who, resetsAtOf(usage.five_hour), t),
        weeklyUsed |-> weeklyUsed, weeklyRemaining |-> 100 - weeklyUsed,
        weeklyBar |-> formatProgressBar(weeklyUsed, 20),
        weeklyResetIn |-> resetIn(who, resetsAtOf(usage.seven_day), t),
        from |-> usage.from]

\* The table with a total that leaves the cache tokens out.
localSectionWithoutCache(s, t) ==
    [total    |-> toLocaleString(s.inputTokens + s.outputTokens),
     input    |-> toLocaleString(s.inputTokens),
     output   |-> toLocaleString(s.outputTokens),
     cache    |-> toLocaleString(s.cacheTokens),
     requests |-> s.requests,
     minutes  |-> t - s.sessionStart,
     cost     |-> toFixed4(s.cost)]

\* The "Local Session Tracking" table.
localSection(s, t) ==
    [total    |-> toLocaleString(getTotalTokens(s)),
     input    |-> toLocaleString(s.inputTokens),
     output   |-> toLocaleString(s.outputTokens),
     cache    |-> toLocaleString(s.cacheTokens),
     requests |-> s.requests,
     minutes  |-> t - s.sessionStart,
     cost     |-> toFixed4(s.cost)]

\* The text execute returns in src/src/index.ts.
reportIndex(usage, s, t) ==
    [quota |-> IF usage = None THEN None ELSE Some(quotaSection("index", usage[1], t)),
     local |-> Some(localSection(s, t))]

\* The text execute returns in src/unnamed/part_000.
reportSimple(usage, s, t) ==
    [quota |-> IF usage = None THEN None ELSE Some(quotaSection("simple", usage[1], t)),
     local |-> IF usage = None THEN None ELSE Some(localSection(s, t))]

report(pl, usage, s, t) ==
    IF pl = "index" THEN reportIndex(usage, s, t) ELSE reportSimple(usage, s, t)

\* execute after its last await: it builds the text and returns it.  The
\* returned record also carries the log of the invocation's remote calls.
QuotaRender ==
    /\ q.pc = "render"
    /\ ret' = Some([op |-> "quota", threw |-> FALSE,
                    text |-> report(plugin, q.claudeUsage, localState, now),
                    calls |-> q.calls, expired |-> q.expired, at |-> now,
                    before |-> q.before])
    /\ q' = IdleQ
    /\ UNCHANGED <<plugin, localState, now, authFile, cli, ghost>>

---------------------------------------------------------------------------
(* bin/cli.mjs: main() and its catch handler *)

IdleCli ==
    [pc |-> "idle", code |-> 0, why |-> "", calls |-> <<>>, printed |-> None,
     fetchedAt |-> 0]

Exit(c, code, why) == [c EXCEPT !.pc = "exited", !.code = code, !.why = why]

\* A catch handler that reports the error and lets the process end normally.
cliCatchNoExit(c) == Exit(c, 0, "error")

\* main().catch(err => ... process.exit(1))
cliCatch(c) == Exit(c, 1, "error")

\* main sending the refresh token as the bearer.
cliMainStartWrongToken(file) ==
    CASE file.kind = "missing" -> Exit(IdleCli, 1, "nofile")
      [] file.kind \in {"unreadable", "badjson", "null"} -> Exit(IdleCli, 1, "error")
      [] OTHER ->
            IF file.anthropic = None \/ file.anthropic[1].type # "oauth"
            THEN Exit(IdleCli, 1, "nooauth")
            ELSE [IdleCli EXCEPT !.pc = "usage",
                                 !.calls = <<Call("usage", file.anthropic[1].refresh)>>]

\* main up to its fetch.
cliMainStart(file) ==
    CASE file.kind = "missing" -> Exit(IdleCli, 1, "nofile")
      [] file.kind \in {"unreadable", "badjson", "null"} -> cliCatch(IdleCli)
      [] OTHER ->
            IF file.anthropic = None \/ file.anthropic[1].type # "oauth"
            THEN Exit(IdleCli, 1, "nooauth")
            ELSE [IdleCli EXCEPT !.pc = "usage",
                                 !.calls = <<Call("usage", file.anthropic[1].access)>>]

CliStart ==
    /\ cli.pc \in {"idle", "exited"}
    /\ cli' = cliMainStart(authFile)
    /\ UNCHANGED <<plugin, localState, now, authFile, q, served, ret, ghost>>

\* main after the answer of the usage endpoint; when main returns the
\* process ends with exit code 0.
cliMainUsage(c, o, t) ==
    CASE o = "neterr"   -> cliCatch(c)
      [] o = "status"   -> Exit(c, 1, "api")
      [] o = "badbody"  -> cliCatch(c)
      [] o = "nullbody" -> cliCatch(c)
      [] OTHER          ->
            [Exit(c, 0, "ok") EXCEPT
                !.fetchedAt = t,
                !.printed = Some(quotaSection("cli", UsageBody("usage", c.calls[1].token, o), t))]

CliUsageResponse(o) ==
    /\ cli.pc = "usage"
    /\ cli' = cliMainUsage([cli EXCEPT !.calls = Answered(@, o)], o, now)
    /\ UNCHANGED <<plugin, localState, now, authFile, q, ret, ghost>>

---------------------------------------------------------------------------
(* Specifications *)

InitWith(files) ==
    /\ plugin \in {"index", "simple"}
    /\ localState = ZeroState(0)
    /\ now = 0
    /\ authFile \in files
    /\ q = IdleQ
    /\ cli = IdleCli
    /\ served = <<>>
    /\ ret = None
    /\ ghost = NoGhost

\* Credential files of the specification that studies the local counters:
\* none at all, and a complete OAuth entry that does not expire during the run.
LocalAuthFiles ==
    {[kind |-> "missing", anthropic |-> None],
     [kind |-> "object",
      anthropic |-> Some([type |-> "oauth", access |-> "stale",
                          expires |-> Some(MaxNow), refresh |-> "refresh"])]}

Init == InitWith(LocalAuthFiles)

\* Answers of the usage endpoint in the specification that studies the local
\* counters: data, or a failure that ends the fetch.
LocalUsageOutcomes == {"data", "neterr"}

\* Events, resets and the quota tool, whose usage call delivers or fails.
Next ==
    \/ \E input \in Inputs : MessageUpdated(input)
    \/ SessionCreated
    \/ QuotaReset
    \/ Tick
    \/ QuotaStart /\ UNCHANGED served
    \/ \E o \in LocalUsageOutcomes : UsageResponse(o) /\ UNCHANGED served
    \/ QuotaRender /\ UNCHANGED served

Spec == Init /\ [][Next]_vars

\* Payloads of the specification that keeps the ledger: an event with one
\* token field, one with all of them, and one that is ignored.
LedgerInputs ==
    {[message |-> Some([role |-> r, cost |-> None, tokens |-> t])] :
        r \in {"assistant"},
        t \in {Some([NoTokens EXCEPT !.input = Some(1)]),
               Some([input |-> Some(1), output |-> Some(1), reasoning |-> Some(1),
                     cache |-> Some([read |-> Some(1), write |-> None])])}}
    \cup {[message |-> Some([role |-> "user", cost |-> None,
                             tokens |-> Some([NoTokens EXCEPT !.input = Some(1)])])]}

InitLedger ==
    /\ plugin \in {"index", "simple"}
    /\ localState = ZeroState(0)
    /\ now = 0
    /\ authFile \in LocalAuthFiles
    /\ q = IdleQ
    /\ cli = IdleCli
    /\ served = <<>>
    /\ ret = None
    /\ ghost = [NoGhost EXCEPT !.ledger = Some(EmptyLedger)]

\* Events interleaved with calls of the quota tool and of quotaReset.
NextLedger ==
    \/ \E input \in LedgerInputs : MessageUpdated(input)
    \/ SessionCreated
    \/ QuotaReset
    \/ QuotaStart /\ UNCHANGED served
    \/ \E o \in LocalUsageOutcomes : UsageResponse(o) /\ UNCHANGED served
    \/ QuotaRender /\ UNCHANGED served

SpecLedger == InitLedger /\ [][NextLedger]_vars

\* Every credential file, one kind of event; the endpoints answer anything,
\* each time.
InitFetch == InitWith(AuthFiles)

NextFetch ==
    \/ \E input \in FetchInputs : MessageUpdated(input)
    \/ SessionCreated
    \/ QuotaReset
    \/ Tick
    \/ QuotaStart /\ UNCHANGED served
    \/ \E o \in TokenOutcomes : RefreshResponse(o) /\ UNCHANGED served
    \/ \E o \in UsageOutcomes : UsageResponse(o) /\ UNCHANGED served
    \/ \E o \in OrgsOutcomes : OrgsResponse(o) /\ UNCHANGED served
    \/ \E o \in UsageOutcomes : OrgUsageResponse(o) /\ UNCHANGED served
    \/ QuotaRender /\ UNCHANGED served

SpecFetch == InitFetch /\ [][NextFetch]_vars

\* The outbound call the quota tool waits for resolves or rejects.
Resolves ==
    \/ \E o \in TokenOutcomes : RefreshResponse(o) /\ UNCHANGED served
    \/ \E o \in UsageOutcomes : UsageResponse(o) /\ UNCHANGED served
    \/ \E o \in OrgsOutcomes : OrgsResponse(o) /\ UNCHANGED served
    \/ \E o \in UsageOutcomes : OrgUsageResponse(o) /\ UNCHANGED served

\* The continuation after the last await runs.
Renders == QuotaRender /\ UNCHANGED served

\* The quota tool among events and clock ticks.
NextLive ==
    \/ \E input \in FetchInputs : MessageUpdated(input)
    \/ Tick
    \/ QuotaStart /\ UNCHANGED served
    \/ Resolves
    \/ Renders

\* Every outbound call the tool issued eventually resolves or rejects, and
\* the runtime eventually runs a continuation that is ready.
SpecLive ==
    InitFetch /\ [][NextLive]_vars /\ WF_vars(Resolves) /\ WF_vars(Renders)

\* An endpoint answers the same request the same way every time.
Serves(req, o) ==
    IF req \in DOMAIN served
    THEN served[req] = o /\ UNCHANGED served
    ELSE served' = served @@ (req :> o)

LastCall(calls) == <<calls[Len(calls)].ep, calls[Len(calls)].token>>

\* The plugin's quota tool and the CLI run against the same endpoints.
NextCli ==
    \/ Tick
    \/ QuotaStart /\ UNCHANGED served
    \/ \E o \in TokenOutcomes : RefreshResponse(o) /\ Serves(LastCall(q.calls), o)
    \/ \E o \in UsageOutcomes : UsageResponse(o) /\ Serves(LastCall(q.calls), o)
    \/ \E o \in OrgsOutcomes : OrgsResponse(o) /\ Serves(LastCall(q.calls), o)
    \/ \E o \in UsageOutcomes : OrgUsageResponse(o) /\ Serves(LastCall(q.calls), o)
    \/ QuotaRender /\ UNCHANGED served
    \/ CliStart
    \/ \E o \in UsageOutcomes : CliUsageResponse(o) /\ Serves(LastCall(cli.calls), o)

SpecCli == InitFetch /\ [][NextCli]_vars

---------------------------------------------------------------------------
(* Claims about the local counters (specification Spec) *)

Returned(op) == ret # None /\ ret[1].op = op

\* C1: after any sequence of message.updated events since the last reset,
\* the total tokens equal the sum over the qualifying events of
\* input + output + reasoning + cacheRead + cacheWrite, absent fields as 0.
C1_TotalIsSumOfAllFields == getTotalTokens(localState) = ghost.sumFields

\* The state a reset found and the state it left.
ResetLeavesZero ==
    (Returned("quotaReset") \/ Returned("session.created")) =>
        /\ localState = ZeroState(ret[1].note.at)
        /\ ret[1].note.at <= now

\* C2 as stated: a reset yields the exact pre-reset totals, tokens and cost,
\* and leaves every counter at 0 with the session start at the reset's time.
C2_ResetYieldsExactTotals ==
    /\ ResetLeavesZero
    /\ Returned("quotaReset") =>
        /\ LocaleValue(ret[1].text.tokens) = ret[1].note.total
        /\ 10 * ret[1].text.cost = ret[1].note.cost

\* C2 amended: a reset leaves every counter at 0 with the session start at
\* the reset's time; quotaReset yields the exact pre-reset token total, and
\* the pre-reset cost rounded to the nearest 0.0001 dollar.
C2_ResetYieldsRoundedCost ==
    /\ ResetLeavesZero
    /\ Returned("quotaReset") =>
        /\ LocaleValue(ret[1].text.tokens) = ret[1].note.total
        /\ 10 * ret[1].text.cost - ret[1].note.cost \in -5..5

C2_Witness ==
    /\ Returned("quotaReset")
    /\ ret[1].note.total > 0
    /\ ret[1].note.cost = 8
    /\ ret[1].text.cost = 1
    /\ ret[1].note.at = 1

NonDecreasing ==
    /\ localState'.inputTokens >= localState.inputTokens
    /\ localState'.outputTokens >= localState.outputTokens
    /\ localState'.cacheTokens >= localState.cacheTokens
    /\ localState'.cost >= localState.cost
    /\ localState'.requests >= localState.requests

\* C3: in every step that is not a reset, whatever payload the hook
\* accepted, no local counter decreases.
C3_CountersNeverDecrease ==
    [][(~QuotaReset /\ ~SessionCreated) => NonDecreasing]_vars

\* C8: when no credential file exists, and whenever the remote quota is
\* unavailable, the quota tool returns the fallback block together with the
\* local-tracking section showing the current totals.
C8_FallbackKeepsLocalSection ==
    Returned("quota") =>
        /\ authFile.kind = "missing" => ret[1].text.quota = None
        /\ ret[1].text.quota = None =>
            /\ ret[1].text.local # None
            /\ LocaleValue(ret[1].text.local[1].total) = getTotalTokens(localState)
            /\ ret[1].text.local[1].requests = localState.requests

---------------------------------------------------------------------------
(* Claims about the fetch of the quota tool (specification SpecFetch) *)

\* The call logs in sight: of the running invocation and of the one that
\* just returned.
Logs ==
    {q.calls} \cup (IF Returned("quota") /\ ~ret[1].threw THEN {ret[1].calls} ELSE {})

HasOAuthEntry ==
    authFile.kind = "object" /\ authFile.anthropic # None
    /\ authFile.anthropic[1].type = "oauth"

Stored == authFile.anthropic[1]

RefreshFailed(calls) ==
    Len(calls) >= 1 /\ calls[1].ep = "token" /\ calls[1].o \in {"status", "neterr"}

\* C4: with an expired credential and a refresh that fails (non-success
\* status or network error), the fetch still issues the usage call, and the
\* call carries the stored access token.
C4_StaleTokenStillUsed ==
    \A calls \in Logs :
        (RefreshFailed(calls) /\ Stored.access # "") =>
            /\ Len(calls) >= 2
            /\ calls[2].ep = "usage"
            /\ calls[2].token = Stored.access

C4_Witness ==
    /\ q.pc = "usage" /\ q.expired
    /\ q.calls[1].ep = "token" /\ q.calls[1].o = "status"
    /\ q.calls[2] = Call("usage", "stale")

TokenCalls(calls) == Cardinality({i \in 1..Len(calls) : calls[i].ep = "token"})

\* C5: within one quota fetch the token endpoint is called at most once,
\* whatever the refresh and the usage call answer.
C5_OneRefreshPerFetch == \A calls \in Logs : TokenCalls(calls) <= 1

C5_Witness ==
    /\ Returned("quota")
    /\ Len(ret[1].calls) >= 2
    /\ ret[1].calls[1].ep = "token" /\ ret[1].calls[1].o = "status"
    /\ ret[1].calls[2].ep = "usage" /\ ret[1].calls[2].o = "status"
    /\ ret[1].text.quota = None

\* The usage call of a log and what followed it.
UsageFailedAt(calls, i, outcomes) ==
    i \in 1..Len(calls) /\ calls[i].ep = "usage" /\ calls[i].o \in outcomes

EndsUnavailable(calls, i) ==
    /\ i = Len(calls)
    /\ (Returned("quota") /\ ret[1].calls = calls) => ret[1].text.quota = None

C7_QuotaNeverRejects ==
    /\ q.pc # "rejected"
    /\ Returned("quota") => ~ret[1].threw

C7_Witness ==
    /\ Returned("quota")
    /\ authFile.kind = "badjson"
    /\ ret[1].text.quota = None

---------------------------------------------------------------------------
(* Claims about the CLI (specification SpecCli) *)

CliAnswer == IF Len(cli.calls) = 1 THEN cli.calls[1].o ELSE "none"

\* C9 as stated: the CLI ends with a non-zero exit code when the credential
\* file is missing, when the provider entry is missing or not OAuth, or when
\* the usage call fails or returns a non-success status; in every other run
\* it prints the report and ends with exit code zero.
C9_ExitCodeAsStated ==
    cli.pc = "exited" =>
        /\ cli.code # 0 <=>
              \/ authFile.kind = "missing"
              \/ authFile.kind = "object" /\ ~HasOAuthEntry
              \/ CliAnswer \in {"neterr", "status"}
        /\ cli.code = 0 => cli.printed # None

\* C9 amended: the exit code is also non-zero when the credential file
\* cannot be read or is not JSON of an object, and when the body of a
\* successful usage response cannot be parsed or is null; in every other
\* run the CLI prints the report and ends with exit code zero.
C9_ExitCodeWithParseFailures ==
    cli.pc = "exited" =>
        /\ cli.code \in {0, 1}
        /\ cli.code # 0 <=>
              \/ authFile.kind \in {"missing", "unreadable", "badjson", "null"}
              \/ authFile.kind = "object" /\ ~HasOAuthEntry
              \/ CliAnswer \in {"neterr", "status", "badbody", "nullbody"}
        /\ cli.code = 0 => cli.printed # None /\ CliAnswer \in DataOutcomes

C9_Witness ==
    /\ cli.pc = "exited"
    /\ HasOAuthEntry
    /\ CliAnswer = "badbody"
    /\ cli.code = 1

PluginData == ret[1].text.quota

\* Two quota sections show the same percentages of the same response.
SameFigures(a, b) ==
    /\ a.from = b.from
    /\ a.sessionUsed = b.sessionUsed /\ a.sessionRemaining = b.sessionRemaining
    /\ a.weeklyUsed = b.weeklyUsed /\ a.weeklyRemaining = b.weeklyRemaining
    /\ a.sessionBar = b.sessionBar /\ a.weeklyBar = b.weeklyBar
BothRan == Returned("quota") /\ ~ret[1].threw /\ cli.pc = "exited"

---------------------------------------------------------------------------
(* Claims about the event hooks (specification Spec) *)

\* C11: the promises the event hooks return never reject, whatever payload
\* the host delivers, a payload with no message object included.
C11_HooksNeverReject == ~(Returned("message.updated") /\ ret[1].threw)

\* An event that is not assistant-authored or carries no token data.
NotCounted(message) == message.role # "assistant" \/ message.tokens = None

IgnoredInputs ==
    {input \in Inputs : input.message # None /\ NotCounted(input.message[1])}

\* C12: a message.updated event whose message is not assistant-authored, or
\* carries no token data, leaves every token counter, the cost, the request
\* count and the session start as they were.
C12_IgnoredEventChangesNothing ==
    [][(\E input \in IgnoredInputs : MessageUpdated(input))
          => localState' = localState]_vars

C12_Witness ==
    /\ Returned("message.updated")
    /\ ~ret[1].threw /\ ~ret[1].counted
    /\ localState.requests = 1
    /\ getTotalTokens(localState) > 0
    /\ localState.cost > 0

\* A step of the quota tool: the steps that move its invocation.
QuotaStep == q' # q

\* An event that takes one of the early returns, or has no message.
IgnoredEvent ==
    \E input \in IgnoredInputs \cup {[message |-> None]} : MessageUpdated(input)

\* C19: the request count equals the number of assistant-authored events
\* with token data received since the last reset, and neither a step of the
\* quota tool nor an event that does not qualify changes the local state.
C19_OneMutationPerQualifyingEvent ==
    /\ [](localState.requests = ghost.events)
    /\ [][(QuotaStep \/ IgnoredEvent) => localState' = localState]_vars

C19_Witness ==
    /\ Returned("quota")
    /\ ret[1].text.local # None
    /\ ret[1].text.local[1].requests = 2
    /\ ghost.events = 2
    /\ localState.requests = 2


---------------------------------------------------------------------------
(* Claims about the rendering of a usage response *)

\* The quota sections in sight, each with the response body it was built
\* from and the time it was built at: the report the quota tool returned
\* last, and what the CLI printed.
Rendered ==
    (IF Returned("quota") /\ ~ret[1].threw /\ ret[1].text.quota # None
     THEN {[section |-> ret[1].text.quota[1], who |-> plugin, at |-> ret[1].at,
            body |-> UsageBody(ret[1].text.quota[1].from[1],
                               ret[1].text.quota[1].from[2],
                               ret[1].calls[Len(ret[1].calls)].o)]}
     ELSE {})
    \cup
    (IF cli.printed # None
     THEN {[section |-> cli.printed[1], who |-> "cli", at |-> cli.fetchedAt,
            body |-> UsageBody("usage", cli.calls[1].token, cli.calls[1].o)]}
     ELSE {})

\* The utilization a window of a body states, in tenths; 0 when absent.
Stated(window) ==
    IF window = None \/ window[1].utilization = None THEN 0
    ELSE window[1].utilization[1]

\* The integer nearest to a value in tenths, a tie going up.
Nearest(tenths) ==
    CHOOSE n \in -1..151 : 10 * n - 5 <= tenths /\ tenths < 10 * n + 5

\* C13: each rendered window line shows used = the window's utilization
\* rounded to an integer (0 when absent) and remaining = 100 - used;
\* utilization 8 and 28 render as 8 used, 92 remaining and 28 used, 72
\* remaining.
C13_UsedAndRemaining ==
    \A r \in Rendered :
        /\ r.section.sessionUsed = Nearest(Stated(r.body.five_hour))
        /\ r.section.weeklyUsed = Nearest(Stated(r.body.seven_day))
        /\ r.section.sessionRemaining = 100 - r.section.sessionUsed
        /\ r.section.weeklyRemaining = 100 - r.section.weeklyUsed
        /\ (Stated(r.body.five_hour) = 80 /\ Stated(r.body.seven_day) = 280) =>
              /\ r.section.sessionUsed = 8 /\ r.section.sessionRemaining = 92
              /\ r.section.weeklyUsed = 28 /\ r.section.weeklyRemaining = 72

C13_Witness ==
    /\ Returned("quota") /\ ret[1].text.quota # None
    /\ ret[1].text.quota[1].sessionUsed = 0
    /\ ret[1].text.quota[1].sessionRemaining = 100
    /\ ret[1].text.quota[1].weeklyUsed = 29
    /\ ret[1].text.quota[1].weeklyRemaining = 71
    /\ cli.printed # None
    /\ cli.printed[1].sessionUsed = 8 /\ cli.printed[1].sessionRemaining = 92
    /\ cli.printed[1].weeklyUsed = 28 /\ cli.printed[1].weeklyRemaining = 72

\* Inputs of the progress bar.
Percents == -50..150
Widths == {0, 1, 10, 15, 20}

\* A bar of k filled segments followed by empty ones, width segments in all.
Bar(k, width) == [i \in 1..width |-> IF i <= k THEN "#" ELSE "-"]

\* What the progress bar does on all the inputs.
BarFacts ==
    /\ \A percent \in Percents, width \in Widths :
          LET clamped == IF percent < 0 THEN 0 ELSE IF percent > 100 THEN 100 ELSE percent
              bar == formatProgressBar(percent, width)
          IN /\ Len(bar) = width
             /\ \E k \in 0..width :
                   /\ bar = Bar(k, width)
                   /\ 100 * k - 50 <= clamped * width
                   /\ clamped * width < 100 * k + 50
    /\ formatProgressBar(0, 20) = Bar(0, 20)
    /\ formatProgressBar(100, 20) = Bar(20, 20)
    /\ formatProgressBar(150, 10) = formatProgressBar(100, 10)

\* C14: the progress bar clamps percent to [0,100] and renders
\* round(percent/100 * width) filled segments followed by empty ones, width
\* segments in all: 20 empty for (0,20), 20 filled for (100,20), and the
\* same bar for (150,10) as for (100,10); so are the bars of every report.
C14_ProgressBar ==
    /\ BarFacts
    /\ \A r \in Rendered :
          /\ Len(r.section.sessionBar) = 20
          /\ Len(r.section.weeklyBar) = 20
          /\ r.section.sessionBar \in {Bar(k, 20) : k \in 0..20}
          /\ r.section.weeklyBar \in {Bar(k, 20) : k \in 0..20}

C14_Witness ==
    /\ Returned("quota") /\ ret[1].text.quota # None
    /\ ret[1].text.quota[1].sessionUsed = 150
    /\ ret[1].text.quota[1].sessionBar = Bar(20, 20)
    /\ ret[1].text.quota[1].weeklyBar = Bar(0, 20)

\* The reset time as the five forms tell it, at clock t.
StatedForm(resetTime, t) ==
    IF resetTime = None THEN TimeText("unknown", 0, 0)
    ELSE LET left == resetTime[1] - t IN
         CASE left <= 0    -> TimeText("resetting...", 0, 0)
           [] left >= 1440 -> TimeText("Dd Hh", left \div 1440, (left % 1440) \div 60)
           [] left >= 60   -> TimeText("Hh Mm", left \div 60, left % 60)
           [] OTHER        -> TimeText("Mm", left, 0)

StatedReset(window, t) ==
    StatedForm(IF window = None THEN None ELSE window[1].resets_at, t)

\* C15: every reset time the plugin report and the CLI render is 'unknown'
\* for an absent timestamp, 'resetting...' when the reset is not after now,
\* 'Dd Hh' from 24 hours on, 'Hh Mm' from 1 hour to 24 hours, 'Mm' below.
C15_ResetTimeForms ==
    \A r \in Rendered :
        /\ r.section.sessionResetIn = StatedReset(r.body.five_hour, r.at)
        /\ r.section.weeklyResetIn = StatedReset(r.body.seven_day, r.at)

\* The same with src/src/index.ts left out.
C15_ExceptIndex ==
    \A r \in Rendered :
        r.who # "index" =>
            /\ r.section.sessionResetIn = StatedReset(r.body.five_hour, r.at)
            /\ r.section.weeklyResetIn = StatedReset(r.body.seven_day, r.at)


---------------------------------------------------------------------------
(* Claims about the credential (specification SpecFetch) *)

\* An entry that is OAuth-typed and carries refresh, access and expires.
Complete(entry) ==
    /\ entry.type = "oauth"
    /\ entry.refresh # "" /\ entry.access # "" /\ entry.expires # None

\* C16: whenever the provider entry of the credential file is missing, has
\* another type, or lacks refresh, access or expires, the fetch yields
\* Unavailable: the report the quota tool returns has no quota snapshot.
C16_IncompleteEntryIsUnavailable ==
    (/\ Returned("quota") /\ ~ret[1].threw
     /\ authFile.kind = "object"
     /\ authFile.anthropic = None \/ ~Complete(authFile.anthropic[1]))
        => ret[1].text.quota = None

\* The same for a missing entry and an entry of another type only; then the
\* fetch calls no endpoint either.
C16_NoOAuthEntryIsUnavailable ==
    (Returned("quota") /\ ~ret[1].threw /\ ~HasOAuthEntry)
        => ret[1].text.quota = None /\ ret[1].calls = <<>>


---------------------------------------------------------------------------
(* Claims about interleaved callers (specification Spec) *)

\* C17: events, resets and the rendering of the local table each run as one
\* step.  In every report the displayed total equals the displayed Input +
\* Output + Cache, and all displayed local values are those of one state
\* made of whole events, also when events arrived while the quota tool was
\* suspended on its network call; a quotaReset summary shows the totals of
\* the state it zeroed.
C17_ReportsShowWholeStates ==
    /\ (Returned("quota") /\ ret[1].text.local # None) =>
          LET shown == ret[1].text.local[1] IN
          /\ LocaleValue(shown.total) =
                LocaleValue(shown.input) + LocaleValue(shown.output)
                + LocaleValue(shown.cache)
          /\ LocaleValue(shown.input) = localState.inputTokens
          /\ LocaleValue(shown.output) = localState.outputTokens
          /\ LocaleValue(shown.cache) = localState.cacheTokens
          /\ LocaleValue(shown.total) = ghost.counted
          /\ shown.requests = localState.requests
          /\ shown.requests = ghost.events
          /\ shown.cost = toFixed4(localState.cost)
          /\ shown.minutes = ret[1].at - localState.sessionStart
    /\ Returned("quotaReset") =>
          /\ LocaleValue(ret[1].text.tokens) = ret[1].note.total
          /\ getTotalTokens(localState) = 0 /\ localState.requests = 0
          /\ ghost = NoGhost

C17_Witness ==
    /\ Returned("quota")
    /\ ret[1].text.local # None
    /\ Len(ret[1].calls) = 1
    /\ ret[1].before = 0
    /\ ret[1].text.local[1].requests = 2
    /\ LocaleValue(ret[1].text.local[1].total) = ghost.counted
    /\ ghost.counted > 0


---------------------------------------------------------------------------
(* Claims about the life of the access token (specification SpecCli) *)

StoredExpired == Stored.expires # None /\ Stored.expires[1] < now
StoredUnexpired == Stored.expires # None /\ Stored.expires[1] >= now

\* The calls of an invocation that starts with an expired credential.
StartsWithRefresh(inv) ==
    inv.pc = "refresh" /\ inv.calls = <<Call("token", Stored.refresh)>>

\* A refreshed token is sent only by the invocation that obtained it.
FreshTokenIsOwn(calls) ==
    \A i \in 1..Len(calls) :
        (calls[i].ep # "token" /\ calls[i].token = "fresh") =>
            calls[1].ep = "token" /\ calls[1].o = "fresh"

\* C18: a refreshed access token lives only inside the quota invocation that
\* obtained it: no step changes the credential file, no other invocation and
\* no run of the CLI sends a refreshed token, and every quota call that finds
\* the stored credential expired performs its own refresh.
C18_RefreshedTokenIsNotKept ==
    /\ [](/\ \A calls \in Logs : FreshTokenIsOwn(calls)
          /\ \A i \in 1..Len(cli.calls) : cli.calls[i].token # "fresh")
    /\ [][/\ authFile' = authFile
          /\ (HasOAuthEntry /\ StoredExpired /\ QuotaStart) => StartsWithRefresh(q')]_vars

C18_Witness ==
    /\ <<"token", "refresh">> \in DOMAIN served
    /\ served[<<"token", "refresh">>] = "fresh"
    /\ <<"usage", "fresh">> \in DOMAIN served
    /\ q.pc = "refresh"
    /\ q.calls = <<Call("token", "refresh")>>

\* In a call log: no second call of the token endpoint, and after a refresh
\* that returned a token, a usage call next and the refreshed token in
\* every later call.
ExchangedBeforeUse(calls) ==
    /\ \A i \in 2..Len(calls) : calls[i].ep # "token"
    /\ (Len(calls) >= 1 /\ calls[1].ep = "token" /\ calls[1].o = "fresh") =>
          /\ Len(calls) >= 2
          /\ calls[2].ep = "usage"
          /\ \A i \in 2..Len(calls) : calls[i].token = "fresh"

\* The quota tool starts by the expiry of the stored credential.
PluginStartsByExpiry ==
    (HasOAuthEntry /\ QuotaStart) =>
        /\ StoredExpired => StartsWithRefresh(q')
        /\ StoredUnexpired =>
              q'.calls = IF Stored.access # "" THEN <<Call("usage", Stored.access)>>
                         ELSE <<>>

---------------------------------------------------------------------------
(* Claims about the range of the displayed percentages *)

InRange(percent) == percent \in 0..100

\* C23: in every report built from a fetched usage response, the displayed
\* used and remaining percentages of the session window and of the weekly
\* window lie in 0..100, whatever utilization the usage endpoint returned.
C23_PercentagesInRange ==
    \A r \in Rendered :
        /\ InRange(r.section.sessionUsed) /\ InRange(r.section.sessionRemaining)
        /\ InRange(r.section.weeklyUsed) /\ InRange(r.section.weeklyRemaining)

\* The same for the responses whose utilizations are themselves in 0..100.
C23_InRangeWhenServedInRange ==
    \A r \in Rendered :
        (Stated(r.body.five_hour) \in 0..1000 /\ Stated(r.body.seven_day) \in 0..1000) =>
            /\ InRange(r.section.sessionUsed) /\ InRange(r.section.sessionRemaining)
            /\ InRange(r.section.weeklyUsed) /\ InRange(r.section.weeklyRemaining)


---------------------------------------------------------------------------
(* Claims about the ledger of events and resets (specification SpecLedger) *)

\* C21: no event is lost or counted twice when events interleave with calls
\* of the quota tool and of quotaReset: since the last session.created, the
\* sum of the previous totals all quotaReset calls returned plus the current
\* total equals the sum of the tokens (input, output, cache read and write)
\* of all qualifying events received.
C21_NoEventLostOrDoubled ==
    ghost.ledger # None =>
        ghost.ledger[1].returned + getTotalTokens(localState)
            = ghost.ledger[1].received

C21_Witness ==
    /\ ghost.ledger # None
    /\ ghost.ledger[1].resets = 2
    /\ ghost.ledger[1].returned = 7
    /\ getTotalTokens(localState) = 4
    /\ ghost.ledger[1].received = 11
    /\ q.pc = "usage"
    /\ q.before = 0


---------------------------------------------------------------------------
(* Claims about the termination of the quota tool (specification SpecLive) *)

\* No endpoint is called twice in a call log.
NoCallReissued(calls) ==
    \A i, j \in 1..Len(calls) : calls[i].ep = calls[j].ep => i = j

\* A suspended invocation waits for the last call it issued, and for
\* nothing else.
WaitsForOwnCall ==
    /\ q.pc \in {"idle", "refresh", "usage", "orgs", "orgUsage", "render"}
    /\ q.pc \in {"refresh", "usage", "orgs", "orgUsage"} =>
          /\ Len(q.calls) >= 1
          /\ q.calls[Len(q.calls)].o = "pending"
          /\ q.calls[Len(q.calls)].ep = (IF q.pc = "refresh" THEN "token" ELSE q.pc)
    /\ \A i \in 1..(Len(q.calls) - 1) : q.calls[i].o # "pending"

\* C22: provided each outbound call eventually resolves or rejects, every
\* invocation of the quota tool eventually returns a report, the snapshot or
\* the fallback; it never calls an endpoint again after a failure and waits
\* for nothing but the call it issued.
C22_QuotaEventuallyReturns ==
    /\ [](WaitsForOwnCall /\ \A calls \in Logs : NoCallReissued(calls))
    /\ (q.pc # "idle") ~> (q.pc = "idle" /\ Returned("quota") /\ ~ret[1].threw)

C22_Witness ==
    /\ plugin = "index"
    /\ Returned("quota") /\ q.pc = "idle"
    /\ Len(ret[1].calls) = 3
    /\ ret[1].calls[1].ep = "token" /\ ret[1].calls[1].o = "neterr"
    /\ ret[1].calls[2].ep = "usage" /\ ret[1].calls[2].o = "status"
    /\ ret[1].calls[3].ep = "orgs" /\ ret[1].calls[3].o = "neterr"
    /\ ret[1].text.quota = None

===========================================================================
